---- MODULE Spec2Model ----
(***************************************************************************)
(* Hybrid semantic search and asset materialization of graphics-db.        *)
(*                                                                         *)
(* The two source tables are sets of rows.  A search handler is one        *)
(* action: it runs the SQL of the CRUD layer, applies the endpoint's       *)
(* post-fetch filters and leaves the response in `call`, `fetched`,        *)
(* `results` and `status`.                                                 *)
(*                                                                         *)
(* The SQL computes distances and scores in float8.  The model keeps that  *)
(* arithmetic: numbers are integers counted in units of 2^-MantBits, and   *)
(* every + and - rounds to MantBits significant bits, ties to even.        *)
(* Where SQL leaves the order of rows unspecified (equal ORDER BY keys)    *)
(* the model allows every order.                                           *)
(***************************************************************************)
EXTENDS Integers, Sequences, FiniteSets, TLC

\* ------------------------------------------------------------------ bounds
\* Significand width of the modelled float8 (53 in the program).
MantBits == 2
\* Rows a source table can hold; also the size of the UID universe.
MaxRows == 2
\* Largest top_k a request asks for (the endpoints accept 1..100).
MaxTopK == 3
\* download_material_files calls, run one after another or interleaved.
MaxCalls == 2
\* Annotations the objaverse dataset holds.
MaxAnnotations == 3
\* Largest limit load_objaverse_assets is called with.
MaxLimit == 2
\* Times the thumbnail of one asset is rendered anew.
MaxRenders == 2
\* The largest core count of a machine running the service.
MaxCores == 16

VARIABLES
    objaverse_assets,   \* rows of table objaverse_assets
    polyhaven_assets,   \* rows of table polyhaven_assets
    call,               \* the request being answered: operation and arguments
    fetch_limit,        \* the LIMIT the handler passed to the per-table SQL
    fetched,            \* rows the per-table SQL returned, in returned order
    results,            \* body of the response
    status,             \* HTTP status of the response (0: no response)
    cache,              \* the material cache directory: state of the file at each path
    procs,              \* the download_material_files calls, one record each
    validation,         \* the last validate_asset_scale call: arguments and result
    loader,             \* the last load_objaverse_assets call: arguments and outcome
    thumbnails,         \* the thumbnail file next to each asset's .glb (0: none)
    render_log          \* the last thumbnail call: arguments and what it did

searchVars == <<objaverse_assets, polyhaven_assets, call, fetch_limit, fetched, results, status>>
downloadVars == <<cache, procs>>
ingestVars == <<validation, loader, thumbnails, render_log>>
vars == <<searchVars, downloadVars, ingestVars>>

\* ------------------------------------------------------------ float8 model
RECURSIVE Exp2(_)
Exp2(n) == IF n = 0 THEN 1 ELSE 2 * Exp2(n - 1)

\* 1.0 in model units.
One == Exp2(MantBits)

Abs(x) == IF x < 0 THEN -x ELSE x

\* Smallest e with x < 2^(MantBits + e): the exponent of x's binade.
RECURSIVE Binade(_, _)
Binade(x, e) == IF x < Exp2(MantBits + e) THEN e ELSE Binade(x, e + 1)

\* Round a non-negative real (an integer count of units) to the nearest
\* number with MantBits significant bits, ties to the even significand.
RoundMag(x) ==
    LET e == Binade(x, 0)
        ulp == Exp2(e)
        q == x \div ulp
        r == x % ulp
        up == (2 * r > ulp) \/ (2 * r = ulp /\ q % 2 = 1)
    IN  (IF up THEN q + 1 ELSE q) * ulp

Fl(x) == IF x < 0 THEN -RoundMag(-x) ELSE RoundMag(x)

FAdd(a, b) == Fl(a + b)
FSub(a, b) == Fl(a - b)

\* ORDER BY (clip_embedding <=> q) + (sbert_embedding <=> q)
DistanceSum(r) == FAdd(r.clip, r.sbert)

\* (1 - (clip_embedding <=> q)) + (1 - (sbert_embedding <=> q)) AS similarity_score
SimilarityScore(r) == FAdd(FSub(One, r.clip), FSub(One, r.sbert))

\* ------------------------------------------------------------- SQL helpers
Min(a, b) == IF a < b THEN a ELSE b

RECURSIVE Perms(_)
Perms(S) ==
    IF S = {} THEN {<<>>}
    ELSE UNION {{<<x>> \o p : p \in Perms(S \ {x})} : x \in S}

\* The first n elements of s (Python s[:n], SQL LIMIT n).
Take(s, n) == SubSeq(s, 1, Min(n, Len(s)))

\* Python truthiness of an Optional[str] argument: `if category_filter:`.
None == "None"
Truthy(x) == x \notin {None, ""}

\* A fetched row: the table row and the similarity_score column of the SELECT.
Scored(r) == [row |-> r, similarity_score |-> SimilarityScore(r)]

\* s is ordered as ORDER BY <distance sum> ASC asks.
AscendingByDistance(s) ==
    \A i \in 1..(Len(s) - 1) : DistanceSum(s[i]) <= DistanceSum(s[i + 1])

\* s is ordered as ORDER BY similarity_score DESC asks.
DescendingByScore(s) ==
    \A i \in 1..(Len(s) - 1) : s[i].similarity_score >= s[i + 1].similarity_score

\* SELECT ..., <score> AS similarity_score FROM table [WHERE asset_category = c]
\* ORDER BY <distance sum> LIMIT limit.  Every sequence the query may return:
\* rows with equal distance sums come in any order.
TableQuery(table, category_filter, limit) ==
    LET matching == IF Truthy(category_filter)
                    THEN {r \in table : r.asset_category = category_filter}
                    ELSE table
    IN  {[i \in 1..Min(limit, Len(p)) |-> Scored(p[i])] :
            p \in {q \in Perms(matching) : AscendingByDistance(q)}}

\* ----------------------------------------------------------- input domains
Half == One \div 2

\* (clip distance, sbert distance) of a row to the query.  The first two have
\* real sums One and One + 1 unit, which float8 addition rounds to the same
\* distance sum while their scores differ by one unit.
DistancePairs == {<<Half, Half>>, <<Half + 1, Half>>, <<One, Half>>}

UIDs == 1..MaxRows
TopKs == 1..MaxTopK

ObjaverseRows ==
    [uid : UIDs, clip : {d[1] : d \in DistancePairs}, sbert : {d[2] : d \in DistancePairs},
     asset_category : {"furniture", "vehicle"},
     geometric_complexity : {"simple", "complex"},
     has_textures : {"True", "False"}]

\* ------------------------------------------------- material download domain
Calls == 1..MaxCalls

\* "rock" is an asset Poly Haven serves; "gone" is one it answers 404 for.
MaterialAssets == {"rock", "gone"}
Resolutions == {"1k"}
MapLists == {<<"Diffuse">>, <<"Diffuse", "Normal">>, <<"Roughness", "Diffuse">>}
MapTypes == {"Diffuse", "Normal", "Roughness"}

\* The JSON of GET /files/{asset_id}: internal map name -> resolution ->
\* formats on offer.
ProviderFiles ==
    "rock" :> ("Diffuse" :> ("1k" :> {"jpg", "png"} @@ "2k" :> {"jpg"})
               @@ "nor_gl" :> ("1k" :> {"png"})
               @@ "Rough" :> ("1k" :> {"exr"})
               @@ "AO" :> ("1k" :> {"jpg"})
               @@ "arm" :> ("1k" :> {"jpg"} @@ "2k" :> {"png"}))
    @@ "rock_ao" :> ("Diffuse" :> ("1k" :> {"jpg"})
                     @@ "arm" :> ("1k" :> {"jpg"}))

\* str.lower() on the map names in use.
Lower(map_type) ==
    CASE map_type = "Diffuse" -> "diffuse"
      [] map_type = "Normal" -> "normal"
      [] map_type = "Normal_DX" -> "normal_dx"
      [] map_type = "Roughness" -> "roughness"
      [] map_type = "Rough" -> "rough"
      [] map_type = "AO" -> "ao"
      [] map_type = "Displacement" -> "displacement"
      [] map_type = "ARM" -> "arm"
      [] OTHER -> map_type

\* local_path with a file name that leaves the map type out.
LocalPathWithoutMap(asset_id, resolution, map_type, file_ext) ==
    asset_id \o "/" \o resolution \o "/" \o asset_id \o "_" \o resolution \o "." \o file_ext

\* cache_dir / f"{asset_id}_{map_type.lower()}_{resolution}.{file_ext}" with
\* cache_dir = MATERIAL_CACHE_DIR / asset_id / resolution, as the path below
\* MATERIAL_CACHE_DIR.
LocalPath(asset_id, resolution, map_type, file_ext) ==
    asset_id \o "/" \o resolution \o "/"
        \o asset_id \o "_" \o Lower(map_type) \o "_" \o resolution \o "." \o file_ext

Paths ==
    {LocalPath(a, r, m, e) :
        a \in MaterialAssets, r \in Resolutions, m \in MapTypes, e \in {"jpg", "png"}}

NoPath == ""

\* A call that has not been made yet.
NotCalled ==
    [pc |-> "idle", asset_id |-> "", resolution |-> "", maps |-> <<>>, local_path |-> NoPath,
     downloaded_files |-> {}, list_requests |-> 0, file_requests |-> 0]

\* ------------------------------------------------- ingestion and thumbnails
\* core.config.SCALE_MAX_LENGTH_THRESHOLD, 100.0 m.  Lengths are in millimetres.
SCALE_MAX_LENGTH_THRESHOLD == 100000

NoScene == [kind |-> "none"]
NoReason == [kind |-> "none"]
NoValidation == [glb |-> NoScene]
\* limit=None of load_objaverse_assets: no limit.
NoLimit == 0 - 1
NoLoad == [limit |-> NoLimit]
NoRender == [op |-> "none"]

\* -------------------------------------------------------------------- Init
NoCall == [op |-> "none"]

Init ==
    /\ objaverse_assets = {}
    /\ polyhaven_assets = {}
    /\ call = NoCall
    /\ fetch_limit = 0
    /\ fetched = <<>>
    /\ results = <<>>
    /\ status = 0
    /\ cache = [f \in Paths |-> "absent"]
    /\ procs = [p \in Calls |-> NotCalled]
    /\ validation = NoValidation
    /\ loader = NoLoad
    /\ thumbnails = [u \in UIDs |-> 0]
    /\ render_log = NoRender

Idle == call = NoCall

\* The handler has returned: the request and its locals are gone.
Return ==
    /\ ~Idle
    /\ call' = NoCall
    /\ fetch_limit' = 0
    /\ fetched' = <<>>
    /\ results' = <<>>
    /\ status' = 0
    /\ UNCHANGED <<objaverse_assets, polyhaven_assets, cache, procs, ingestVars>>

\* ObjaverseCRUD.insert_assets, one asset.  uid is unique within the table.
InsertObjaverse ==
    /\ Idle
    /\ \E r \in ObjaverseRows :
           /\ \A x \in objaverse_assets : x.uid # r.uid
           /\ objaverse_assets' = objaverse_assets \cup {r}
           /\ UNCHANGED <<polyhaven_assets, call, fetch_limit, fetched, results, status, cache, procs, ingestVars>>

\* ------------------------------------------------------ GET /objects/search
\* The limit search_objects hands to ObjaverseCRUD.search_assets.
ObjectsFetchLimit(a) == a.top_k

\* The post-fetch filters of search_objects, then [:top_k].
ObjectsFilter(a, rows) ==
    LET f1 == IF a.has_textures # None
              THEN SelectSeq(rows, LAMBDA x : x.row.has_textures = a.has_textures)
              ELSE rows
        f2 == IF Truthy(a.complexity)
              THEN SelectSeq(f1, LAMBDA x : x.row.geometric_complexity = a.complexity)
              ELSE f1
    IN  Take(f2, a.top_k)

ObjectsArgs ==
    [op : {"objects"}, top_k : TopKs, category : {None, "furniture"},
     has_textures : {None, "True", "False"}, complexity : {None, "simple"}]

SearchObjects ==
    /\ Idle
    /\ \E a \in ObjectsArgs :
           \E rows \in TableQuery(objaverse_assets, a.category, ObjectsFetchLimit(a)) :
               /\ call' = a
               /\ fetch_limit' = ObjectsFetchLimit(a)
               /\ fetched' = rows
               /\ results' = ObjectsFilter(a, rows)
               /\ status' = 200
               /\ UNCHANGED <<objaverse_assets, polyhaven_assets, cache, procs, ingestVars>>

NextObjects == InsertObjaverse \/ SearchObjects \/ Return

SpecObjects == Init /\ [][NextObjects]_vars

\* ------------------------------------------------------- GET /assets/search
\* Rows as crud.insert_objaverse_assets / insert_polyhaven_assets write them.
LegacyRows(source, asset_type) ==
    [uid : UIDs, clip : {d[1] : d \in DistancePairs}, sbert : {d[2] : d \in DistancePairs},
     source : {source}, asset_type : {asset_type}]

\* crud.insert_objaverse_assets, one asset.
InsertObjaverseLegacy ==
    /\ Idle
    /\ \E r \in LegacyRows("objaverse", "model") :
           /\ \A x \in objaverse_assets : x.uid # r.uid
           /\ objaverse_assets' = objaverse_assets \cup {r}
           /\ UNCHANGED <<polyhaven_assets, call, fetch_limit, fetched, results, status, cache, procs, ingestVars>>

\* crud.insert_polyhaven_assets, one asset.
InsertPolyhavenLegacy ==
    /\ Idle
    /\ \E r \in LegacyRows("polyhaven", "material") :
           /\ \A x \in polyhaven_assets : x.uid # r.uid
           /\ polyhaven_assets' = polyhaven_assets \cup {r}
           /\ UNCHANGED <<objaverse_assets, call, fetch_limit, fetched, results, status, cache, procs, ingestVars>>

\* MergeQuery with the DESC of the outer ORDER BY left out (ascending order).
MergeQueryAscending(candidates, limit) ==
    LET n == Len(candidates)
        ordered == {[i \in 1..n |-> candidates[p[i]]] : p \in Perms(1..n)}
        ascending(t) ==
            \A i \in 1..(Len(t) - 1) : t[i].similarity_score <= t[i + 1].similarity_score
    IN  {Take(s, limit) : s \in {t \in ordered : ascending(t)}}

\* The outer ORDER BY similarity_score DESC LIMIT limit over the UNION ALL of
\* the two sub-selects: every sequence it may return.
MergeQuery(candidates, limit) ==
    LET n == Len(candidates)
        ordered == {[i \in 1..n |-> candidates[p[i]]] : p \in Perms(1..n)}
    IN  {Take(s, limit) : s \in {t \in ordered : DescendingByScore(t)}}

\* crud.search_assets: the rows the two sub-selects return, concatenated.
FusionCandidates(top_k) ==
    {a \o b : a \in TableQuery(objaverse_assets, None, top_k),
              b \in TableQuery(polyhaven_assets, None, top_k)}

AssetsArgs == [op : {"assets"}, top_k : TopKs, validate_scale : {FALSE}]

\* GET /assets/search without scale validation: the handler returns what
\* crud.search_assets returned.
SearchAssets ==
    /\ Idle
    /\ \E a \in AssetsArgs :
           \E candidates \in FusionCandidates(a.top_k) :
               \E merged \in MergeQuery(candidates, a.top_k) :
                   /\ call' = a
                   /\ fetch_limit' = a.top_k
                   /\ fetched' = candidates
                   /\ results' = merged
                   /\ status' = 200
                   /\ UNCHANGED <<objaverse_assets, polyhaven_assets, cache, procs, ingestVars>>

NextFusion == InsertObjaverseLegacy \/ InsertPolyhavenLegacy \/ SearchAssets \/ Return

SpecFusion == Init /\ [][NextFusion]_vars

\* validation_results.get(uid, True): a UID without a result counts as valid.
PassedValidationByDefault(validation_results, uid) ==
    uid \notin DOMAIN validation_results \/ validation_results[uid]

\* validation_results.get(uid, False)
PassedValidation(validation_results, uid) ==
    uid \in DOMAIN validation_results /\ validation_results[uid]

ValidatedArgs == [op : {"assets"}, top_k : TopKs, validate_scale : {TRUE}]

\* GET /assets/search with validate_scale: of what crud.search_assets
\* returned, the rows whose UID download_assets delivered (delivered) and
\* validate_asset_scales found within the threshold (valid).
SearchAssetsValidated ==
    /\ Idle
    /\ \E a \in ValidatedArgs :
           \E candidates \in FusionCandidates(a.top_k) :
               \E merged \in MergeQuery(candidates, a.top_k) :
                 LET asset_uids == {merged[i].row.uid : i \in 1..Len(merged)}
                 IN  \E delivered \in SUBSET asset_uids : \E valid \in SUBSET delivered :
                       LET validation_results == [uid \in delivered |-> uid \in valid]
                       IN  /\ call' = a @@ [ranked |-> merged, delivered |-> delivered,
                                            valid |-> valid]
                           /\ fetch_limit' = a.top_k
                           /\ fetched' = candidates
                           /\ results' =
                                SelectSeq(merged,
                                    LAMBDA asset :
                                        PassedValidation(validation_results, asset.row.uid))
                           /\ status' = 200
                           /\ UNCHANGED <<objaverse_assets, polyhaven_assets, cache, procs,
                                          ingestVars>>

\* The validated search over a service whose objects have been ingested.
NextValidatedSearch == InsertObjaverseLegacy \/ SearchAssetsValidated \/ Return

SpecValidatedSearch == Init /\ [][NextValidatedSearch]_vars

\* ---------------------------------------------------- GET /materials/search
\* Column values of a polyhaven_assets row as PolyhavenAssetCreate.categorize
\* fills them: the ingestion default, and rows that differ from it in one column.
DefaultMaterial ==
    [asset_category |-> "wood", surface_type |-> "smooth", asset_type |-> "texture",
     resolution_available |-> <<"1k", "2k", "4k", "8k">>]

MaterialProfiles ==
    {DefaultMaterial}
    \cup {[DefaultMaterial EXCEPT !.asset_category = "metal"]}
    \cup {[DefaultMaterial EXCEPT !.surface_type = "rough"]}
    \cup {[DefaultMaterial EXCEPT !.asset_type = "hdri"]}
    \cup {[DefaultMaterial EXCEPT !.resolution_available = l] :
            l \in {<<>>, <<"1k", "2k">>, <<"16k">>}}

PolyhavenRows ==
    {[uid |-> u, clip |-> d[1], sbert |-> d[2],
      asset_category |-> m.asset_category, surface_type |-> m.surface_type,
      asset_type |-> m.asset_type, resolution_available |-> m.resolution_available] :
        u \in UIDs, d \in DistancePairs, m \in MaterialProfiles}

\* PolyhavenCRUD.insert_assets, one asset.
InsertPolyhaven ==
    /\ Idle
    /\ \E r \in PolyhavenRows :
           /\ \A x \in polyhaven_assets : x.uid # r.uid
           /\ polyhaven_assets' = polyhaven_assets \cup {r}
           /\ UNCHANGED <<objaverse_assets, call, fetch_limit, fetched, results, status, cache, procs, ingestVars>>

\* resolution_order.get(res, default)
ResolutionOrder(res, default) ==
    CASE res = "1k" -> 1
      [] res = "2k" -> 2
      [] res = "4k" -> 4
      [] res = "8k" -> 8
      [] OTHER -> default

\* HasResolution with all() written for any().
HasResolutionAll(r, resolution) ==
    \A i \in 1..Len(r.resolution_available) :
        ResolutionOrder(r.resolution_available[i], 0) >= ResolutionOrder(resolution, 1)

\* any(resolution_order.get(res, 0) >= min_res_level for res in resolution_available)
HasResolution(r, resolution) ==
    \E i \in 1..Len(r.resolution_available) :
        ResolutionOrder(r.resolution_available[i], 0) >= ResolutionOrder(resolution, 1)

\* The limit search_materials hands to PolyhavenCRUD.search_assets.
MaterialsFetchLimit(a) == a.top_k

\* The post-fetch filters of search_materials, then [:top_k].
MaterialsFilter(a, rows) ==
    LET f1 == IF Truthy(a.surface_type)
              THEN SelectSeq(rows, LAMBDA x : x.row.surface_type = a.surface_type)
              ELSE rows
        f2 == IF a.asset_type # "texture"
              THEN SelectSeq(f1, LAMBDA x : x.row.asset_type = a.asset_type)
              ELSE f1
        f3 == IF Truthy(a.resolution)
              THEN SelectSeq(f2, LAMBDA x : HasResolution(x.row, a.resolution))
              ELSE f2
    IN  Take(f3, a.top_k)

MaterialsArgs ==
    [op : {"materials"}, top_k : TopKs, category : {None, "wood"},
     surface_type : {None, "rough"}, asset_type : {"texture", "hdri"},
     resolution : {None, "1k", "4k"}]

SearchMaterials ==
    /\ Idle
    /\ \E a \in MaterialsArgs :
           \E rows \in TableQuery(polyhaven_assets, a.category, MaterialsFetchLimit(a)) :
               /\ call' = a
               /\ fetch_limit' = MaterialsFetchLimit(a)
               /\ fetched' = rows
               /\ results' = MaterialsFilter(a, rows)
               /\ status' = 200
               /\ UNCHANGED <<objaverse_assets, polyhaven_assets, cache, procs, ingestVars>>

NextMaterials == InsertPolyhaven \/ SearchMaterials \/ Return

SpecMaterials == Init /\ [][NextMaterials]_vars

\* -------------------------------------------------- download_material_files
\* map_reverse_mapping.get(map_type, map_type)
InternalName(map_type) ==
    CASE map_type = "Diffuse" -> "Diffuse"
      [] map_type = "Normal" -> "nor_gl"
      [] map_type = "Normal_DX" -> "nor_dx"
      [] map_type = "Roughness" -> "Rough"
      [] map_type = "AO" -> "AO"
      [] map_type = "Displacement" -> "Displacement"
      [] map_type = "ARM" -> "arm"
      [] OTHER -> map_type

\* files_data[internal_name].get(resolution) of the listing of asset_id, the
\* empty set when the map or the resolution is not on offer.
ResolutionData(asset_id, map_type, resolution) ==
    LET files_data == ProviderFiles[asset_id]
        internal_name == InternalName(map_type)
    IN  IF internal_name \notin DOMAIN files_data THEN {}
        ELSE IF resolution \notin DOMAIN files_data[internal_name] THEN {}
        ELSE files_data[internal_name][resolution]

\* "jpg" if offered, else "png", else none.
FileExt(resolution_data) ==
    IF "jpg" \in resolution_data THEN "jpg"
    ELSE IF "png" \in resolution_data THEN "png"
    ELSE ""

Set(p, fields) == procs' = [procs EXCEPT ![p] = fields @@ procs[p]]

\* A caller calls download_material_files(asset_id, resolution, maps).
StartDownload(p) ==
    /\ procs[p].pc = "idle"
    /\ \E a \in MaterialAssets, r \in Resolutions, m \in MapLists :
           Set(p, [pc |-> "mkdir", asset_id |-> a, resolution |-> r, maps |-> m])
    /\ UNCHANGED <<searchVars, cache, ingestVars>>

\* cache_dir.mkdir(parents=True, exist_ok=True)
MakeCacheDir(p) ==
    /\ procs[p].pc = "mkdir"
    /\ Set(p, [pc |-> "list"])
    /\ UNCHANGED <<searchVars, cache, ingestVars>>

\* ... which raises OSError when the directory cannot be created.
MakeCacheDirFails(p) ==
    /\ procs[p].pc = "mkdir"
    /\ Set(p, [pc |-> "raised"])
    /\ UNCHANGED <<searchVars, cache, ingestVars>>

\* requests.get(files_url) answers 200 with the listing.
ListFiles(p) ==
    /\ procs[p].pc = "list"
    /\ procs[p].asset_id \in DOMAIN ProviderFiles
    /\ Set(p, [pc |-> "loop", list_requests |-> procs[p].list_requests + 1])
    /\ UNCHANGED <<searchVars, cache, ingestVars>>

\* ... or fails (404, timeout, connection error): RequestException, return {}.
ListFilesFails(p) ==
    /\ procs[p].pc = "list"
    /\ Set(p, [pc |-> "returned", list_requests |-> procs[p].list_requests + 1])
    /\ UNCHANGED <<searchVars, cache, ingestVars>>

\* The loop is over: return downloaded_files.
ReturnFiles(p) ==
    /\ procs[p].pc = "loop"
    /\ procs[p].maps = <<>>
    /\ Set(p, [pc |-> "returned"])
    /\ UNCHANGED <<searchVars, cache, ingestVars>>

\* The map, its resolution or a supported format is not on offer: continue.
SkipMap(p) ==
    /\ procs[p].pc = "loop"
    /\ procs[p].maps # <<>>
    /\ FileExt(ResolutionData(procs[p].asset_id, Head(procs[p].maps), procs[p].resolution)) = ""
    /\ Set(p, [maps |-> Tail(procs[p].maps)])
    /\ UNCHANGED <<searchVars, cache, ingestVars>>

\* The path of the map the loop is at.
CurrentPath(p) ==
    LocalPath(procs[p].asset_id, procs[p].resolution, Head(procs[p].maps),
              FileExt(ResolutionData(procs[p].asset_id, Head(procs[p].maps),
                                     procs[p].resolution)))

\* local_path.exists(): use the cached file.
UseCached(p) ==
    /\ procs[p].pc = "loop"
    /\ procs[p].maps # <<>>
    /\ FileExt(ResolutionData(procs[p].asset_id, Head(procs[p].maps), procs[p].resolution)) # ""
    /\ cache[CurrentPath(p)] # "absent"
    /\ Set(p, [maps |-> Tail(procs[p].maps),
               downloaded_files |-> procs[p].downloaded_files
                                       \cup {<<Head(procs[p].maps), CurrentPath(p)>>}])
    /\ UNCHANGED <<searchVars, cache, ingestVars>>

\* not local_path.exists(): go on to download.
CacheMiss(p) ==
    /\ procs[p].pc = "loop"
    /\ procs[p].maps # <<>>
    /\ FileExt(ResolutionData(procs[p].asset_id, Head(procs[p].maps), procs[p].resolution)) # ""
    /\ cache[CurrentPath(p)] = "absent"
    /\ Set(p, [pc |-> "get", local_path |-> CurrentPath(p)])
    /\ UNCHANGED <<searchVars, cache, ingestVars>>

\* requests.get(file_url) answers 200 with the content.
GetFile(p) ==
    /\ procs[p].pc = "get"
    /\ Set(p, [pc |-> "open", file_requests |-> procs[p].file_requests + 1])
    /\ UNCHANGED <<searchVars, cache, ingestVars>>

\* ... or fails: RequestException is caught, the map is left out.
GetFileFails(p) ==
    /\ procs[p].pc = "get"
    /\ Set(p, [pc |-> "loop", maps |-> Tail(procs[p].maps), local_path |-> NoPath,
               file_requests |-> procs[p].file_requests + 1])
    /\ UNCHANGED <<searchVars, cache, ingestVars>>

\* open(local_path, "wb") creates the file, or truncates the one there.
OpenFile(p) ==
    /\ procs[p].pc = "open"
    /\ cache' = [cache EXCEPT ![procs[p].local_path] = "partial"]
    /\ Set(p, [pc |-> "write"])
    /\ UNCHANGED <<searchVars, ingestVars>>

\* ... or raises OSError, which no except clause of the function catches.
OpenFileFails(p) ==
    /\ procs[p].pc = "open"
    /\ Set(p, [pc |-> "raised"])
    /\ UNCHANGED <<searchVars, cache, ingestVars>>

\* f.write(file_response.content), then downloaded_files[map_type] = path.
WriteFile(p) ==
    /\ procs[p].pc = "write"
    /\ cache' = [cache EXCEPT ![procs[p].local_path] = "complete"]
    /\ Set(p, [pc |-> "loop", maps |-> Tail(procs[p].maps), local_path |-> NoPath,
               downloaded_files |-> procs[p].downloaded_files
                                       \cup {<<Head(procs[p].maps), procs[p].local_path>>}])
    /\ UNCHANGED <<searchVars, ingestVars>>

\* ... or raises OSError (disk full) with the file left partly written.
WriteFileFails(p) ==
    /\ procs[p].pc = "write"
    /\ Set(p, [pc |-> "raised"])
    /\ UNCHANGED <<searchVars, cache, ingestVars>>

NextDownload ==
    \E p \in Calls :
        \/ StartDownload(p)
        \/ MakeCacheDir(p)
        \/ MakeCacheDirFails(p)
        \/ ListFiles(p)
        \/ ListFilesFails(p)
        \/ ReturnFiles(p)
        \/ SkipMap(p)
        \/ UseCached(p)
        \/ CacheMiss(p)
        \/ GetFile(p)
        \/ GetFileFails(p)
        \/ OpenFile(p)
        \/ OpenFileFails(p)
        \/ WriteFile(p)
        \/ WriteFileFails(p)

SpecDownload == Init /\ [][NextDownload]_vars

\* Every network call returns or times out and every local call returns or
\* raises, so a call that can take a step takes one.
SpecDownloadFair == SpecDownload /\ \A p \in Calls : WF_vars(NextDownload /\ procs'[p] # procs[p])

\* ------------------------------------------------------ validate_asset_scale
Thresholds == {SCALE_MAX_LENGTH_THRESHOLD, SCALE_MAX_LENGTH_THRESHOLD \div 2}

\* Edge lengths around the threshold: 10 mm and 1 mm under, equal, and 1, 4,
\* 6 and 10 mm over.
EdgeLengths(T) == {T - 10, T - 1, T, T + 1, T + 4, T + 6, T + 10}

\* What the plotter makes of a .glb: the six bounds of the scene
\* (xmin, xmax, ymin, ymax, zmin, zmax), a bounds tuple of another length, or
\* an exception while loading.
Scenes(T) ==
    {[kind |-> "bounds", bounds |-> <<0, x, 0, y, z, 0>>] :
        x \in EdgeLengths(T), y \in {T - 10, T + 4, T + 10}, z \in {0, T - 1, T + 6}}
    \cup {[kind |-> "bounds", bounds |-> <<0, T>>], [kind |-> "error"]}

Max(a, b) == IF a >= b THEN a ELSE b

\* max(x_size, y_size, z_size) of a six-bounds tuple.
MaxEdge(bounds) ==
    Max(Abs(bounds[2] - bounds[1]),
        Max(Abs(bounds[4] - bounds[3]), Abs(bounds[6] - bounds[5])))

\* f"{max_edge:.2f}": the length in centimetres, to the nearest (no modelled
\* length lies half-way between two).
Format2f(mm) == (mm + 5) \div 10

\* validate_asset_scale rejecting an edge equal to the threshold as well.
validate_asset_scale_ge(scene, max_edge_length) ==
    IF scene.kind = "error" THEN <<FALSE, [kind |-> "error"]>>
    ELSE IF Len(scene.bounds) # 6 THEN <<FALSE, [kind |-> "no_bounding_box"]>>
    ELSE IF MaxEdge(scene.bounds) >= max_edge_length
         THEN <<FALSE, [kind |-> "too_large", max_edge |-> Format2f(MaxEdge(scene.bounds)),
                        limit |-> max_edge_length]>>
         ELSE <<TRUE, NoReason>>

\* (is_valid, reason) of validate_asset_scale(glb_path, max_edge_length).
validate_asset_scale(scene, max_edge_length) ==
    IF scene.kind = "error" THEN <<FALSE, [kind |-> "error"]>>
    ELSE IF Len(scene.bounds) # 6 THEN <<FALSE, [kind |-> "no_bounding_box"]>>
    ELSE IF MaxEdge(scene.bounds) > max_edge_length
         THEN <<FALSE, [kind |-> "too_large", max_edge |-> Format2f(MaxEdge(scene.bounds)),
                        limit |-> max_edge_length]>>
         ELSE <<TRUE, NoReason>>

ValidateAssetScale ==
    /\ \E T \in Thresholds : \E scene \in Scenes(T) :
           validation' = [glb |-> scene, max_edge_length |-> T,
                          result |-> validate_asset_scale(scene, T)]
    /\ UNCHANGED <<searchVars, downloadVars, loader, thumbnails, render_log>>

NextValidation == ValidateAssetScale

SpecValidation == Init /\ [][NextValidation]_vars

\* ---------------------------------------------------- load_objaverse_assets
\* An annotation of the dataset, by kind: "no_<field>" has None for that
\* field, "no_clip" and "no_sbert" have no embedding of that model, and the
\* others have everything and a .glb that is within the scale threshold
\* ("ok"), over it ("large"), or not delivered by the download ("missing").
AnnotationKinds ==
    {"no_uid", "no_viewerUrl", "no_tags", "no_license", "no_clip", "no_sbert",
     "ok", "large", "missing"}

\* The fields of an annotation that are not None, and the embedding maps
\* that hold its uid.
AllFields == {"uid", "viewerUrl", "tags", "license"}
Annotation(kind) ==
    [fields |-> CASE kind = "no_uid" -> AllFields \ {"uid"}
                  [] kind = "no_viewerUrl" -> AllFields \ {"viewerUrl"}
                  [] kind = "no_tags" -> AllFields \ {"tags"}
                  [] kind = "no_license" -> AllFields \ {"license"}
                  [] OTHER -> AllFields,
     clip_embedding |-> kind # "no_clip",
     sbert_embedding |-> kind # "no_sbert"]

\* _is_valid_annotation with the license left out of the required fields.
is_valid_annotation_unlicensed(annotation) ==
    \A field \in {"uid", "viewerUrl", "tags"} : field \in annotation.fields

\* _is_valid_annotation(annotation): no required field is None.
is_valid_annotation(annotation) ==
    LET required_fields == {"uid", "viewerUrl", "tags", "license"}
    IN  \A field \in required_fields : field \in annotation.fields

\* objaverse.load_annotations(): uid -> annotation, in the dict's order; the
\* uid of an annotation is its position.
AnnotationLists == UNION {[1..n -> AnnotationKinds] : n \in 0..MaxAnnotations}

Limits == {NoLimit} \cup (0..MaxLimit)

\* The scene in the .glb of a candidate.
GlbScene(kind, T) ==
    [kind |-> "bounds",
     bounds |-> IF kind = "large" THEN <<0, T + 1, 0, T, 0, T>> ELSE <<0, T, 0, T, 0, T>>]

\* The candidate-collection loop from annotation i on; candidates holds the
\* uids collected so far.  AssetCreate(...) is taken to succeed and to carry the
\* keyword arguments it is given.
RECURSIVE Collect(_, _, _, _)
Collect(annotations, i, candidates, target_candidates) ==
    IF i > Len(annotations) THEN candidates
    ELSE IF \/ ~is_valid_annotation(Annotation(annotations[i]))
            \/ ~Annotation(annotations[i]).clip_embedding
            \/ ~Annotation(annotations[i]).sbert_embedding
         THEN Collect(annotations, i + 1, candidates, target_candidates)
    ELSE LET collected == Append(candidates, i)
         IN  IF target_candidates # NoLimit /\ Len(collected) >= target_candidates
             THEN collected
             ELSE Collect(annotations, i + 1, collected, target_candidates)

\* download_assets(candidate_uids): the uids objaverse delivers a .glb for.
DownloadAssets(annotations, uids) ==
    {uids[k] : k \in {j \in 1..Len(uids) : annotations[uids[j]] # "missing"}}

\* validate_asset_scales(asset_paths, max_edge_length): uid -> is_valid.
validate_asset_scales(annotations, asset_paths, max_edge_length) ==
    [uid \in asset_paths |->
        validate_asset_scale(GlbScene(annotations[uid], max_edge_length), max_edge_length)[1]]

\* The filter loop from candidate k on: <<outcome, valid_assets>>.
RECURSIVE FilterValid(_, _, _, _, _, _)
FilterValid(candidates, k, valid_assets, validation_results, limit, strategy) ==
    IF k > Len(candidates) THEN <<"returned", valid_assets>>
    ELSE LET uid == candidates[k]
             is_valid == uid \in DOMAIN validation_results /\ validation_results[uid]
         IN  IF ~is_valid /\ strategy = "reject"
             THEN FilterValid(candidates, k + 1, valid_assets, validation_results, limit, strategy)
             ELSE IF ~is_valid /\ strategy = "rescale"
             THEN <<"raised", valid_assets>>
             ELSE LET kept == IF is_valid THEN Append(valid_assets, uid) ELSE valid_assets
                  IN  IF limit # NoLimit /\ Len(kept) >= limit
                      THEN <<"returned", kept>>
                      ELSE FilterValid(candidates, k + 1, kept, validation_results, limit, strategy)

\* load_objaverse_assets(limit, validate_scale, max_edge_length,
\* scale_resolution_strategy) over a dataset.
LoadObjaverseAssets ==
    /\ loader = NoLoad
    /\ \E annotations \in AnnotationLists, limit \in Limits,
          validate_scale \in BOOLEAN, strategy \in {"reject", "rescale"} :
         LET target_candidates ==
                 IF validate_scale /\ limit # NoLimit THEN limit * 2 ELSE limit
             candidates == Collect(annotations, 1, <<>>, target_candidates)
             asset_paths == DownloadAssets(annotations, candidates)
             validation_results ==
                 validate_asset_scales(annotations, asset_paths, SCALE_MAX_LENGTH_THRESHOLD)
             filtered == FilterValid(candidates, 1, <<>>, validation_results, limit, strategy)
             call_args == [annotations |-> annotations, limit |-> limit,
                           validate_scale |-> validate_scale, strategy |-> strategy,
                           candidates |-> candidates]
         IN  loader' =
                 IF ~validate_scale
                 THEN call_args @@
                      [downloaded |-> {}, validated |-> {}, outcome |-> "returned",
                       assets |-> IF limit # NoLimit THEN Take(candidates, limit) ELSE candidates]
                 ELSE IF candidates = <<>>
                 THEN call_args @@
                      [downloaded |-> {}, validated |-> {}, outcome |-> "returned",
                       assets |-> <<>>]
                 ELSE call_args @@
                      [downloaded |-> asset_paths, validated |-> DOMAIN validation_results,
                       outcome |-> filtered[1],
                       assets |-> IF filtered[1] = "returned" THEN filtered[2] ELSE <<>>]
    /\ UNCHANGED <<searchVars, downloadVars, validation, thumbnails, render_log>>

\* The caller is done with the list: the run is over.
LoadFinished ==
    /\ loader # NoLoad
    /\ loader' = NoLoad
    /\ UNCHANGED <<searchVars, downloadVars, validation, thumbnails, render_log>>

NextLoader == LoadObjaverseAssets \/ LoadFinished

SpecLoader == Init /\ [][NextLoader]_vars

\* ------------------------------------------------------------- thumbnails
\* A rendering succeeds, or raises inside the try block before the image is
\* written.
RenderOutcomes == {"ok", "fail"}

SkipsRenderingInverted(exists, overwrite) == exists /\ overwrite

\* os.path.exists(output_path) and not overwrite
SkipsRendering(exists, overwrite) == exists /\ ~overwrite

\* generate_thumbnail_from_glb on a target whose content is old (0: no file):
\* the content it leaves, and whether it attempted a rendering.  Every
\* rendering that succeeds writes a new image.
generate_thumbnail_from_glb(old, overwrite, outcome) ==
    IF SkipsRendering(old # 0, overwrite)
    THEN [content |-> old, rendered |-> FALSE]
    ELSE [content |-> IF outcome = "ok" THEN old + 1 ELSE old, rendered |-> TRUE]

\* A direct call of generate_thumbnail_from_glb for the asset uid.
GenerateThumbnail ==
    /\ Idle
    /\ \E uid \in UIDs, overwrite \in BOOLEAN, outcome \in RenderOutcomes :
         LET done == generate_thumbnail_from_glb(thumbnails[uid], overwrite, outcome)
         IN  /\ done.content <= MaxRenders
             /\ thumbnails' = [thumbnails EXCEPT ![uid] = done.content]
             /\ render_log' = [op |-> "generate", uid |-> uid, overwrite |-> overwrite,
                               before |-> thumbnails[uid], rendered |-> done.rendered,
                               outcome |-> outcome]
    /\ UNCHANGED <<searchVars, downloadVars, validation, loader>>

\* The files get_thumbnails(asset_paths) leaves, asset_paths holding the uids
\* of batch; outcomes[uid] is how the rendering of uid ends, for the uids of
\* batch without a thumbnail (for the others the call skips the rendering).
ThumbnailsAfter(batch, outcomes) ==
    [u \in UIDs |->
        IF u \in DOMAIN outcomes
        THEN generate_thumbnail_from_glb(thumbnails[u], FALSE, outcomes[u]).content
        ELSE thumbnails[u]]

\* get_thumbnails without its output_path.exists() test.
get_thumbnails_unchecked(batch, outcomes) == batch

\* The keys of the map get_thumbnails returns: output_path.exists().
get_thumbnails(batch, outcomes) == {u \in batch : ThumbnailsAfter(batch, outcomes)[u] # 0}

\* The record of a batch: which renderings were attempted and how they ended.
BatchLog(op, requested, batch, outcomes, reads) ==
    [op |-> op, requested |-> requested, batch |-> batch,
     failed |-> {u \in DOMAIN outcomes : outcomes[u] = "fail"},
     unreadable |-> {u \in get_thumbnails(batch, outcomes) : reads[u] = "fail"}]

\* The longest request list each batch endpoint accepts.
MaxThumbnailBatch == 20
MaxPreviewBatch == 10

\* len() of a request list naming exactly the UIDs of `requested`, for an
\* endpoint with the cap `cap`: a list may repeat a UID, so its length can
\* reach and pass the cap.
RequestLengths(requested, cap) ==
    IF requested = {} THEN {0}
    ELSE {n \in {Cardinality(requested), cap, cap + 1} : n >= Cardinality(requested)}

\* POST /assets/thumbnails: download, render, then read and encode each image;
\* nothing catches a failing open() or read(), and no length is checked (the
\* list is taken without repeats).
AssetThumbnails ==
    /\ Idle
    /\ \E requested \in SUBSET UIDs : \E batch \in SUBSET requested :
       \E outcomes \in [{u \in batch : thumbnails[u] = 0} -> RenderOutcomes] :
       \E reads \in [get_thumbnails(batch, outcomes) -> RenderOutcomes] :
         LET asset_thumbnails == get_thumbnails(batch, outcomes)
             log == BatchLog("asset_thumbnails", requested, batch, outcomes, reads)
         IN  /\ thumbnails' = ThumbnailsAfter(batch, outcomes)
             /\ render_log' = log
             /\ call' = [op |-> "asset_thumbnails", uids |-> requested,
                         length |-> Cardinality(requested)]
             /\ IF log.unreadable # {}
                THEN status' = 500 /\ results' = <<>>
                ELSE status' = 200 /\ results' = [u \in asset_thumbnails |-> "image"]
    /\ UNCHANGED <<objaverse_assets, polyhaven_assets, fetch_limit, fetched, downloadVars,
                   validation, loader>>

\* The endpoint with its length check moved behind the download and the
\* rendering.
ObjectThumbnailsCheckedLast ==
    /\ Idle
    /\ \E requested \in SUBSET UIDs : \E n \in RequestLengths(requested, MaxThumbnailBatch) :
         /\ call' = [op |-> "object_thumbnails", uids |-> requested, length |-> n]
         /\ IF n = 0
            THEN /\ status' = 400 /\ results' = <<>>
                 /\ UNCHANGED <<thumbnails, render_log>>
            ELSE \E batch \in SUBSET requested :
                 \E outcomes \in [{u \in batch : thumbnails[u] = 0} -> RenderOutcomes] :
                 \E reads \in [get_thumbnails(batch, outcomes) -> RenderOutcomes] :
                   LET asset_thumbnails == get_thumbnails(batch, outcomes)
                       log == BatchLog("object_thumbnails", requested, batch, outcomes, reads)
                   IN  IF batch = {}
                       THEN /\ status' = 404 /\ results' = <<>>
                            /\ render_log' = log
                            /\ UNCHANGED thumbnails
                       ELSE /\ thumbnails' = ThumbnailsAfter(batch, outcomes)
                            /\ render_log' = log
                            /\ IF n > MaxThumbnailBatch
                               THEN status' = 400 /\ results' = <<>>
                               ELSE /\ status' = 200
                                    /\ results' = [u \in asset_thumbnails |->
                                          IF u \in log.unreadable THEN "null" ELSE "image"]
    /\ UNCHANGED <<objaverse_assets, polyhaven_assets, fetch_limit, fetched, downloadVars,
                   validation, loader>>

\* POST /objects/thumbnails: 400 on an empty list, 400 on a list longer than
\* the cap, then the download: 404 when it fetched nothing, else the images,
\* with null for one that could not be read.
ObjectThumbnails ==
    /\ Idle
    /\ \E requested \in SUBSET UIDs : \E n \in RequestLengths(requested, MaxThumbnailBatch) :
         /\ call' = [op |-> "object_thumbnails", uids |-> requested, length |-> n]
         /\ IF n = 0 \/ n > MaxThumbnailBatch
            THEN /\ status' = 400 /\ results' = <<>>
                 /\ UNCHANGED <<thumbnails, render_log>>
            ELSE \E batch \in SUBSET requested :
                 \E outcomes \in [{u \in batch : thumbnails[u] = 0} -> RenderOutcomes] :
                 \E reads \in [get_thumbnails(batch, outcomes) -> RenderOutcomes] :
                   LET asset_thumbnails == get_thumbnails(batch, outcomes)
                       log == BatchLog("object_thumbnails", requested, batch, outcomes, reads)
                   IN  IF batch = {}
                       THEN /\ status' = 404 /\ results' = <<>>
                            /\ render_log' = log
                            /\ UNCHANGED thumbnails
                       ELSE /\ thumbnails' = ThumbnailsAfter(batch, outcomes)
                            /\ render_log' = log
                            /\ status' = 200
                            /\ results' = [u \in asset_thumbnails |->
                                  IF u \in log.unreadable THEN "null" ELSE "image"]
    /\ UNCHANGED <<objaverse_assets, polyhaven_assets, fetch_limit, fetched, downloadVars,
                   validation, loader>>

\* download_diffuse_maps(material_uids): the endpoint imports it from
\* sources.from_polyhaven, which does not define it. Per the materialization
\* contract each UID is served from the cache or fetched, a failure drops that
\* UID only, and the answer maps every UID that has its 1k diffuse map to the
\* cached path; fetched_ok are the UIDs whose fetch succeeds.
download_diffuse_maps(material_uids, fetched_ok) ==
    LET path(u) == LocalPath(u, "1k", "Diffuse", "jpg")
    IN  [u \in {m \in material_uids \cap DOMAIN ProviderFiles :
                   cache[path(m)] = "complete" \/ m \in fetched_ok} |-> path(u)]

\* POST /materials/previews: 400 on an empty list, 400 on a list longer than
\* the cap, else the diffuse maps that could be downloaded.
MaterialPreviews ==
    /\ Idle
    /\ \E requested \in SUBSET MaterialAssets :
       \E n \in RequestLengths(requested, MaxPreviewBatch) :
         /\ call' = [op |-> "material_previews", uids |-> requested, length |-> n]
         /\ IF n = 0 \/ n > MaxPreviewBatch
            THEN /\ status' = 400 /\ results' = <<>>
                 /\ UNCHANGED cache
            ELSE \E fetched_ok \in SUBSET requested :
                   LET downloaded_materials == download_diffuse_maps(requested, fetched_ok)
                   IN  /\ status' = 200
                       /\ results' = downloaded_materials
                       /\ cache' = [p \in Paths |->
                             IF \E u \in DOMAIN downloaded_materials :
                                   downloaded_materials[u] = p
                             THEN "complete" ELSE cache[p]]
    /\ UNCHANGED <<objaverse_assets, polyhaven_assets, fetch_limit, fetched, procs,
                   ingestVars>>

NextThumbnails ==
    GenerateThumbnail \/ AssetThumbnails \/ ObjectThumbnails \/ MaterialPreviews \/ Return

SpecThumbnails == Init /\ [][NextThumbnails]_vars

\* ------------------------------------------------------------ lookup by uid
\* cur.fetchone() of SELECT ... FROM table WHERE uid = %(uid)s: the row as a
\* one-element sequence, <<>> for None.
FetchOne(table, uid) ==
    IF \E r \in table : r.uid = uid
    THEN <<CHOOSE r \in table : r.uid = uid>>
    ELSE <<>>

get_asset_by_uid_polyhaven_first(uid) ==
    IF FetchOne(polyhaven_assets, uid) # <<>>
    THEN FetchOne(polyhaven_assets, uid)
    ELSE FetchOne(objaverse_assets, uid)

\* crud.get_asset_by_uid(conn, uid)
get_asset_by_uid(uid) ==
    IF FetchOne(objaverse_assets, uid) # <<>>
    THEN FetchOne(objaverse_assets, uid)
    ELSE FetchOne(polyhaven_assets, uid)

\* A caller calls crud.get_asset_by_uid; status 200 stands for its return.
GetAssetByUid ==
    /\ Idle
    /\ \E uid \in UIDs :
           /\ call' = [op |-> "get_asset_by_uid", uid |-> uid]
           /\ results' = get_asset_by_uid(uid)
           /\ status' = 200
    /\ UNCHANGED <<objaverse_assets, polyhaven_assets, fetch_limit, fetched, downloadVars,
                   ingestVars>>

\* GET /assets/download/{asset_uid}/glb.  delivered: download_assets returned
\* a path for the uid.  The HTTPException(404) is raised inside the try block,
\* whose `except Exception` turns it into a 500.
DownloadGlbFile ==
    /\ Idle
    /\ \E uid \in UIDs, delivered \in BOOLEAN :
           /\ call' = [op |-> "download_glb", uid |-> uid, resolved |-> delivered]
           /\ results' = <<>>
           /\ status' = IF delivered THEN 200 ELSE 500
    /\ UNCHANGED <<objaverse_assets, polyhaven_assets, fetch_limit, fetched, downloadVars,
                   ingestVars>>

\* GET /assets/{asset_uid}/metadata.  measured: get_glb_dimensions succeeded.
GetAssetMetadata ==
    /\ Idle
    /\ \E uid \in UIDs, delivered \in BOOLEAN, measured \in BOOLEAN :
           /\ call' = [op |-> "asset_metadata", uid |-> uid, resolved |-> delivered]
           /\ results' = <<>>
           /\ status' = IF ~delivered THEN 404 ELSE IF ~measured THEN 500 ELSE 200
    /\ UNCHANGED <<objaverse_assets, polyhaven_assets, fetch_limit, fetched, downloadVars,
                   ingestVars>>

\* GET /objects/{object_uid}
GetObjectDetails ==
    /\ Idle
    /\ \E uid \in UIDs :
         LET obj == FetchOne(objaverse_assets, uid)
         IN  /\ call' = [op |-> "object_details", uid |-> uid, resolved |-> obj # <<>>]
             /\ results' = obj
             /\ status' = IF obj = <<>> THEN 404 ELSE 200
    /\ UNCHANGED <<objaverse_assets, polyhaven_assets, fetch_limit, fetched, downloadVars,
                   ingestVars>>

\* GET /materials/{material_uid}
GetMaterialDetails ==
    /\ Idle
    /\ \E uid \in UIDs :
         LET material == FetchOne(polyhaven_assets, uid)
         IN  /\ call' = [op |-> "material_details", uid |-> uid, resolved |-> material # <<>>]
             /\ results' = material
             /\ status' = IF material = <<>> THEN 404 ELSE 200
    /\ UNCHANGED <<objaverse_assets, polyhaven_assets, fetch_limit, fetched, downloadVars,
                   ingestVars>>

\* GET /healthcheck: SELECT 1, then EXISTS and COUNT(*) over each of the two
\* tables; a psycopg.Error anywhere is answered 500.
Healthcheck ==
    /\ Idle
    /\ \E db \in {"ok", "error"} :
         /\ call' = [op |-> "healthcheck", db |-> db]
         /\ IF db = "error"
            THEN status' = 500 /\ results' = <<>>
            ELSE LET objaverse_count == Cardinality(objaverse_assets)
                     polyhaven_count == Cardinality(polyhaven_assets)
                 IN  /\ status' = 200
                     /\ results' =
                          [status |-> "ok",
                           db |-> "ok",
                           tables |->
                              [objaverse_assets |-> [exists |-> objaverse_assets # {},
                                                     count |-> objaverse_count],
                               polyhaven_assets |-> [exists |-> polyhaven_assets # {},
                                                     count |-> polyhaven_count]],
                           total_assets |-> objaverse_count + polyhaven_count]
    /\ UNCHANGED <<objaverse_assets, polyhaven_assets, fetch_limit, fetched, downloadVars,
                   ingestVars>>

NextLookup ==
    \/ InsertObjaverseLegacy \/ InsertPolyhavenLegacy
    \/ GetAssetByUid
    \/ DownloadGlbFile \/ GetAssetMetadata \/ GetObjectDetails \/ GetMaterialDetails
    \/ Healthcheck
    \/ Return

SpecLookup == Init /\ [][NextLookup]_vars

\* ------------------------------------------------------------ download_assets
\* int(processes / 2): the quotient truncated toward zero.
download_processes(processes) == processes \div 2

\* download_assets(asset_ids) on a machine of `processes` cores; delivered are
\* the UIDs objaverse.load_objects returns a path for, which it can only do
\* with a pool of at least one worker.
DownloadObjaverseAssets ==
    /\ Idle
    /\ \E asset_ids \in SUBSET UIDs, processes \in 1..MaxCores :
       \E delivered \in SUBSET asset_ids :
         LET workers == download_processes(processes)
         IN  /\ call' = [op |-> "download_assets", asset_ids |-> asset_ids,
                         processes |-> processes, download_processes |-> workers]
             /\ IF workers >= 1
                THEN status' = 200 /\ results' = [uid \in delivered |-> "glb"]
                ELSE status' = 500 /\ results' = <<>>
    /\ UNCHANGED <<objaverse_assets, polyhaven_assets, fetch_limit, fetched, downloadVars,
                   ingestVars>>

NextWorkers == DownloadObjaverseAssets \/ Return

SpecWorkers == Init /\ [][NextWorkers]_vars

\* -------------------------------------------------------- cache file paths
\* The keys a caller can ask download_material_files for: an asset the
\* provider lists, a resolution, and a map named by its standard name or by
\* the provider's own name (which map_reverse_mapping.get passes through).
PathAssets == {"rock", "rock_ao"}
PathResolutions == {"1k", "2k"}
MapKinds ==
    {"Diffuse", "Normal", "Normal_DX", "Roughness", "AO", "Displacement", "ARM",
     "nor_gl", "Rough", "arm"}
PathKeys == [asset_id : PathAssets, resolution : PathResolutions, map_type : MapKinds]

\* The local_path the loop body of download_material_files computes for a
\* key, NoPath when the loop skips the map before computing one.
ResolvedPath(key) ==
    LET file_ext == FileExt(ResolutionData(key.asset_id, key.map_type, key.resolution))
    IN  IF file_ext = "" THEN NoPath
        ELSE LocalPath(key.asset_id, key.resolution, key.map_type, file_ext)

\* Two keys are resolved to their cache paths.
ResolveLocalPaths ==
    /\ Idle
    /\ \E first \in PathKeys, second \in PathKeys :
         /\ call' = [op |-> "local_path", first |-> first, second |-> second]
         /\ results' = <<ResolvedPath(first), ResolvedPath(second)>>
    /\ UNCHANGED <<objaverse_assets, polyhaven_assets, fetch_limit, fetched, status,
                   downloadVars, ingestVars>>

NextPaths == ResolveLocalPaths \/ Return

SpecPaths == Init /\ [][NextPaths]_vars

\* The whole service: every handler and every step above.
Next ==
    \/ NextFusion \/ NextValidatedSearch \/ NextObjects \/ NextMaterials \/ NextDownload
    \/ NextValidation \/ NextLoader \/ NextThumbnails \/ NextLookup \/ NextWorkers
    \/ NextPaths

Spec == Init /\ [][Next]_vars

\* ================================================================== claims
Scores(s) == [i \in 1..Len(s) |-> s[i].similarity_score]
Answered(op) == status = 200 /\ call.op = op

\* C1: every search response holds at most top_k rows, in non-increasing
\* similarity_score order.  (Stated for /objects/search; fails there.)
C1_AtMostTopKSortedByScore ==
    Answered("objects") =>
        /\ Len(results) <= call.top_k
        /\ DescendingByScore(results)

\* C2: in crud.search_assets each table contributes at most top_k candidates
\* and the returned scores are exactly the top_k highest scores over all rows
\* of both tables.
AllRowsByScore ==
    CHOOSE t \in Perms({Scored(r) : r \in objaverse_assets \cup polyhaven_assets}) :
        DescendingByScore(t)
FetchedFrom(source) == SelectSeq(fetched, LAMBDA x : x.row.source = source)
C2_GlobalTopK ==
    Answered("assets") =>
        /\ Len(FetchedFrom("objaverse")) <= call.top_k
        /\ Len(FetchedFrom("polyhaven")) <= call.top_k
        /\ Scores(results) = Scores(Take(AllRowsByScore, call.top_k))

\* C3: in a per-table query, ordering by ascending distance sum is ordering by
\* descending similarity_score: of two rows one has the smaller distance sum
\* iff it has the larger score, so the rows fetched are the top rows by score,
\* in descending score order.
C3_DistanceOrderIsScoreOrder ==
    Answered("materials") =>
        /\ \A a, b \in polyhaven_assets :
              (DistanceSum(a) < DistanceSum(b)) <=> (SimilarityScore(a) > SimilarityScore(b))
        /\ DescendingByScore(fetched)
        /\ \A r \in polyhaven_assets :
              (~Truthy(call.category) \/ r.asset_category = call.category)
              /\ (\A i \in 1..Len(fetched) : fetched[i].row # r)
              => \A i \in 1..Len(fetched) :
                    fetched[i].similarity_score >= SimilarityScore(r)

\* C4: the merge of crud.search_assets is a function of what the per-table
\* queries returned, and is stable: rows of equal similarity_score keep the
\* order in which they were returned.
StableMerge(candidates, limit) ==
    LET n == Len(candidates)
        p == CHOOSE q \in Perms(1..n) :
                \A i \in 1..(n - 1) :
                    \/ candidates[q[i]].similarity_score > candidates[q[i + 1]].similarity_score
                    \/ /\ candidates[q[i]].similarity_score = candidates[q[i + 1]].similarity_score
                       /\ q[i] < q[i + 1]
    IN  Take([i \in 1..n |-> candidates[p[i]]], limit)
C4_StableMerge ==
    Answered("assets") => results = StableMerge(fetched, call.top_k)

\* C5: when the two tables together hold n < top_k rows, /assets/search
\* (scale validation off) answers 200 with exactly those n rows, each once,
\* in descending score order; with empty tables it answers 200 with an empty
\* list.
RowCount == Cardinality(objaverse_assets) + Cardinality(polyhaven_assets)
KnownResolutions == {"1k", "2k", "4k", "8k"}
Ordinal == [res \in KnownResolutions |->
                CASE res = "1k" -> 1 [] res = "2k" -> 2 [] res = "4k" -> 4 [] res = "8k" -> 8]
\* Some available resolution of the row is a known one at least as high as wanted.
OffersResolution(row, wanted) ==
    \E i \in 1..Len(row.resolution_available) :
        /\ row.resolution_available[i] \in KnownResolutions
        /\ Ordinal[row.resolution_available[i]] >= Ordinal[wanted]
SatisfiesMaterialPredicates(x) ==
    /\ Truthy(call.category) => x.row.asset_category = call.category
    /\ Truthy(call.surface_type) => x.row.surface_type = call.surface_type
    /\ x.row.asset_type = call.asset_type
    /\ Truthy(call.resolution) => OffersResolution(x.row, call.resolution)
C6_ResultsSatisfyPredicates ==
    Answered("materials") =>
        /\ \A i \in 1..Len(results) : SatisfiesMaterialPredicates(results[i])
        /\ results = Take(SelectSeq(fetched, SatisfiesMaterialPredicates), call.top_k)

\* C7: with an attribute predicate active, /objects/search fetches 3 * top_k
\* candidates from the oracle (every top_k modelled is far below any ceiling);
\* with none active it fetches top_k.
ObjectsPredicateActive ==
    Truthy(call.category) \/ call.has_textures # None \/ Truthy(call.complexity)
C7_OverFetchTimesThree ==
    Answered("objects") =>
        fetch_limit = IF ObjectsPredicateActive THEN 3 * call.top_k ELSE call.top_k

\* C8: with a resolution filter r, a candidate that passes the other filters
\* is kept iff one of its available resolutions is a known one with ordinal
\* (1k 1, 2k 2, 4k 4, 8k 8) >= that of r; a candidate with no or only
\* unknown resolutions is dropped.
PassesOtherMaterialFilters(x) ==
    /\ Truthy(call.surface_type) => x.row.surface_type = call.surface_type
    /\ call.asset_type # "texture" => x.row.asset_type = call.asset_type
C8_ResolutionFilter ==
    Answered("materials") /\ call.resolution \in KnownResolutions =>
        results = SelectSeq(fetched,
                      LAMBDA x : PassesOtherMaterialFilters(x)
                                 /\ OffersResolution(x.row, call.resolution))
C8_Witness ==
    /\ Answered("materials") /\ call.resolution = "4k"
    /\ Len(fetched) = 2 /\ Len(results) = 1
    /\ results[1].row.resolution_available = <<"1k", "2k", "4k", "8k">>
    /\ \E i \in 1..2 : fetched[i].row.resolution_available = <<"16k">>

\* C9: with the table and top_k fixed, a call never returns more rows than
\* the same call with one of its predicates left out.  (Stated for tables in
\* which no two rows have the same distance sum, where the oracle's order is
\* determined.)
ObjectsOutcomes(a) ==
    {ObjectsFilter(a, rows) :
        rows \in TableQuery(objaverse_assets, a.category, ObjectsFetchLimit(a))}
OnePredicateFewer(a) ==
    {b \in ObjectsArgs :
        \/ Truthy(a.category) /\ b = [a EXCEPT !.category = None]
        \/ a.has_textures # None /\ b = [a EXCEPT !.has_textures = None]
        \/ Truthy(a.complexity) /\ b = [a EXCEPT !.complexity = None]}
NoDistanceTies ==
    \A x, y \in objaverse_assets : x # y => DistanceSum(x) # DistanceSum(y)
C9_FilterMonotone ==
    Answered("objects") /\ NoDistanceTies =>
        \A b \in OnePredicateFewer(call) :
            \A r \in ObjectsOutcomes(b) : Len(results) <= Len(r)

\* C10: a failure on one entry of a materialization batch (not found
\* upstream, network failure, storage failure) never raises to the caller:
\* the call returns a map of the entries that succeeded, each naming a file
\* in the cache.
C10_FailuresNeverRaise ==
    \A p \in Calls :
        /\ procs[p].pc # "raised"
        /\ procs[p].pc = "returned" =>
              \A e \in procs[p].downloaded_files : cache[e[2]] # "absent"

\* C11: a call of download_material_files that serves everything it returns
\* from the cache (the files were produced by an earlier call) issues no
\* network request at all, neither the file listing nor a file download.
ServedFromCache(p) ==
    /\ procs[p].pc = "returned"
    /\ procs[p].downloaded_files # {}
    /\ procs[p].file_requests = 0
C11_CachedCallIssuesNoRequest ==
    \A p \in Calls :
        ServedFromCache(p) => procs[p].list_requests + procs[p].file_requests = 0

\* C12: every key (map) requested in a call leaves REQUESTED / DOWNLOADING
\* for a terminal state, the call returning an output map that holds the key
\* iff it ended CACHED or MATERIALIZED.
Remaining(p) == {procs[p].maps[i] : i \in 1..Len(procs[p].maps)}
KeyPending(p, m) == procs[p].pc \notin {"idle", "returned"} /\ m \in Remaining(p)
C12_EveryKeyReachesTerminalState ==
    \A p \in Calls : \A m \in MapTypes :
        KeyPending(p, m) ~> (procs[p].pc = "returned")

\* C13, as claimed: validate_asset_scale with threshold T passes an asset iff
\* its largest bounding-box edge is <= T, and on rejection the reason holds
\* the computed largest edge.
Measured == validation.glb.kind = "bounds" /\ Len(validation.glb.bounds) = 6
C13_ScaleBoundary ==
    Measured =>
        LET max_edge == MaxEdge(validation.glb.bounds)
            is_valid == validation.result[1]
            reason == validation.result[2]
        IN  /\ is_valid <=> max_edge <= validation.max_edge_length
            /\ ~is_valid => reason.kind = "too_large" /\ reason.max_edge * 10 = max_edge

\* C13, amended: the asset passes iff its largest edge is <= T, and on
\* rejection the reason holds the largest edge to the centimetre (at most
\* 5 mm off), together with the limit.
C13_ScaleBoundaryToTheCentimetre ==
    Measured =>
        LET max_edge == MaxEdge(validation.glb.bounds)
            is_valid == validation.result[1]
            reason == validation.result[2]
        IN  /\ is_valid <=> max_edge <= validation.max_edge_length
            /\ ~is_valid =>
                  /\ reason.kind = "too_large"
                  /\ Abs(reason.max_edge * 10 - max_edge) <= 5
                  /\ reason.limit = validation.max_edge_length

\* An edge 4 mm over the threshold is rejected with the threshold's own value
\* in the reason.
C13_Witness ==
    /\ Measured
    /\ MaxEdge(validation.glb.bounds) = validation.max_edge_length + 4
    /\ ~validation.result[1]
    /\ validation.result[2].max_edge * 10 = validation.max_edge_length

\* C14: a load_objaverse_assets call with scale validation and the strategy
\* "rescale" always fails with the unimplemented error; it never returns
\* assets.
C14_RescaleAlwaysRaises ==
    "outcome" \in DOMAIN loader /\ loader.validate_scale /\ loader.strategy = "rescale"
        => loader.outcome = "raised"

\* C17: with validate_scale and a limit L, no candidate is downloaded and
\* validated after L assets have passed: the candidates validated are within
\* the shortest run of candidates that holds L passing ones.
Passing(uid) == loader.annotations[uid] = "ok"
PassingUpTo(k) == Cardinality({j \in 1..k : Passing(loader.candidates[j])})
Needed ==
    {loader.candidates[k] :
        k \in {j \in 1..Len(loader.candidates) : PassingUpTo(j - 1) < loader.limit}}
C17_ValidationStopsAtQuota ==
    "outcome" \in DOMAIN loader /\ loader.validate_scale /\ loader.limit # NoLimit
        => loader.validated \subseteq Needed /\ loader.downloaded \subseteq Needed

\* C18: with a limit L and validate_scale, load_objaverse_assets collects at
\* most 2 * L candidates and returns at most L assets, each of which passed
\* validation; without validate_scale it returns the first L usable
\* annotations, in annotation order.
Usable == SelectSeq([i \in 1..Len(loader.annotations) |-> i],
                    LAMBDA i : loader.annotations[i] \in {"ok", "large", "missing"})
C18_LoaderQuotas ==
    "outcome" \in DOMAIN loader /\ loader.limit # NoLimit /\ loader.outcome = "returned" =>
        IF loader.validate_scale
        THEN /\ Len(loader.candidates) <= 2 * loader.limit
             /\ Len(loader.assets) <= loader.limit
             /\ \A k \in 1..Len(loader.assets) : Passing(loader.assets[k])
        ELSE loader.assets = Take(Usable, loader.limit)

\* C15: generate_thumbnail_from_glb on a target that exists, with overwrite
\* false, renders nothing and leaves the file as it was; it attempts a
\* rendering only when the file is absent or overwrite is true.
C15_ThumbnailIdempotent ==
    render_log.op = "generate" =>
        /\ render_log.before # 0 /\ ~render_log.overwrite =>
              ~render_log.rendered /\ thumbnails[render_log.uid] = render_log.before
        /\ render_log.rendered => render_log.before = 0 \/ render_log.overwrite
C15_Witness ==
    /\ render_log.op = "generate"
    /\ render_log.before = 1 /\ ~render_log.overwrite /\ render_log.outcome = "ok"
    /\ thumbnails[render_log.uid] = 1

\* C16: in a thumbnail batch a rendering or read failure for one uid never
\* fails the request: the response is a success whose map leaves out exactly
\* the uids without a readable thumbnail.
ThumbnailBatch == call.op \in {"asset_thumbnails", "object_thumbnails"} /\ status \notin {400, 404}
C16_ThumbnailFailuresIsolated ==
    ThumbnailBatch =>
        /\ status = 200
        /\ DOMAIN results =
              {u \in render_log.batch : thumbnails[u] # 0} \ render_log.unreadable
        /\ \A u \in DOMAIN results : results[u] = "image"

\* C19: crud.get_asset_by_uid returns the objaverse_assets row of the uid if
\* there is one, even when polyhaven_assets holds the uid too; the
\* polyhaven_assets row only when objaverse_assets lacks the uid; None when
\* neither table holds it.
RowsOf(table, uid) == {r \in table : r.uid = uid}
C19_ObjaverseFirst ==
    Answered("get_asset_by_uid") =>
        LET o == RowsOf(objaverse_assets, call.uid)
            p == RowsOf(polyhaven_assets, call.uid)
        IN  /\ o # {} => Len(results) = 1 /\ results[1] \in o
            /\ o = {} /\ p # {} => Len(results) = 1 /\ results[1] \in p
            /\ o = {} /\ p = {} => results = <<>>
C19_Witness ==
    /\ Answered("get_asset_by_uid")
    /\ RowsOf(objaverse_assets, call.uid) # {}
    /\ RowsOf(polyhaven_assets, call.uid) # {}
    /\ results[1].source = "objaverse"

\* C20: every endpoint that resolves one uid answers 404, and no other
\* status, when the uid cannot be resolved.
SingleUidEndpoints == {"download_glb", "asset_metadata", "object_details", "material_details"}
C20_UnresolvedIs404 ==
    call.op \in SingleUidEndpoints /\ ~call.resolved => status = 404

\* The length caps of the batch endpoints, by operation.
BatchCap(op) == IF op = "material_previews" THEN MaxPreviewBatch ELSE MaxThumbnailBatch

\* C21: a batch request longer than its endpoint's cap (20 UIDs for
\* /objects/thumbnails, 10 for /materials/previews) is answered 400 in a step
\* that downloads, renders and fetches nothing: the thumbnail files, the
\* rendering log, the download cache and the download calls are as before.
C21_OversizedBatchRejectedFirst ==
    [][(/\ call'.op \in {"object_thumbnails", "material_previews"}
        /\ call = NoCall
        /\ call'.length > BatchCap(call'.op))
       => /\ status' = 400
          /\ UNCHANGED <<thumbnails, render_log, cache, procs>>]_vars

C21_Witness ==
    /\ call.op = "object_thumbnails"
    /\ call.length = MaxThumbnailBatch + 1
    /\ status = 400
    /\ \E u \in call.uids : thumbnails[u] = 0

\* A batch request of at least one UID and within its endpoint's cap
\* (/assets/thumbnails has none) that has been answered.
BatchWithinCap ==
    /\ call.op \in {"asset_thumbnails", "object_thumbnails", "material_previews"}
    /\ call.length >= 1
    /\ call.op # "asset_thumbnails" => call.length <= BatchCap(call.op)
    /\ status # 0

\* No requested UID has materialized: no thumbnail file for any downloaded
\* object, no cached diffuse map for any requested material.
NothingMaterialized ==
    IF call.op = "material_previews"
    THEN \A u \in call.uids : cache[LocalPath(u, "1k", "Diffuse", "jpg")] # "complete"
    ELSE /\ render_log.op = call.op
         /\ \A u \in render_log.batch : thumbnails[u] = 0

\* C22: a batch request within the size limit in which every requested UID
\* fails to materialize is answered with success and an empty map, not with an
\* error.
C22_AllFailedIsEmptySuccess ==
    BatchWithinCap /\ NothingMaterialized => status = 200 /\ results = <<>>

\* C23: the download cache is append-only under every interleaving of
\* download_material_files calls: a cache file whose first write has finished
\* is never opened for writing (truncated) or written again, and no step
\* deletes a file that exists.
C23_CacheAppendOnly ==
    [][\A path \in Paths :
          /\ cache[path] = "complete" => cache'[path] = "complete"
          /\ cache[path] # "absent" => cache'[path] # "absent"]_vars

\* The files a call takes from the cache in a step: it stays in its loop over
\* the maps and its output gains entries it did not write.
CacheHits(p) ==
    IF procs[p].pc = "loop" /\ procs'[p].pc = "loop"
    THEN procs'[p].downloaded_files \ procs[p].downloaded_files
    ELSE {}

\* C24: a call that finds a key in the cache, whatever the other calls for
\* the same key are doing, takes a file with its full content: the file is
\* never seen as existing while it is empty or partly written.
C24_CacheHitSeesCompleteFile ==
    [][\A p \in Calls : \A hit \in CacheHits(p) : cache[hit[2]] = "complete"]_vars

\* An annotation that has every required field and both embeddings.
Complete(uid) ==
    LET annotation == Annotation(loader.annotations[uid])
    IN  /\ AllFields \subseteq annotation.fields
        /\ annotation.clip_embedding /\ annotation.sbert_embedding

C26_HealthcheckBody ==
    call.op = "healthcheck" =>
        /\ call.db = "error" => status = 500
        /\ call.db = "ok" /\ objaverse_assets # {} /\ polyhaven_assets # {} =>
              /\ status = 200
              /\ results.status = "ok" /\ results.db = "ok"
              /\ results.tables.objaverse_assets.count = Cardinality(objaverse_assets)
              /\ results.tables.polyhaven_assets.count = Cardinality(polyhaven_assets)
              /\ "data_exists" \in DOMAIN results
              /\ results.data_exists

C29_AtLeastOneWorker ==
    call.op = "download_assets" =>
        /\ call.download_processes * 2 \in {call.processes - 1, call.processes}
        /\ call.download_processes >= 1

\* Two keys that were resolved to the same cache file.
SharePath == call.op = "local_path" /\ results[1] # NoPath /\ results[1] = results[2]

\* C30, as claimed: the cache path is injective in (uid, resolution, map
\* kind), two distinct keys never get the same cache file.
C30_PathInjective ==
    SharePath => call.first = call.second

\* C30, amended: two keys get the same cache file only if they name the same
\* asset, the same resolution and the same provider map; the map may be
\* named in two ways ("ARM" and the provider's "arm").
C30_PathInjectiveUpToAlias ==
    SharePath =>
        /\ call.first.asset_id = call.second.asset_id
        /\ call.first.resolution = call.second.resolution
        /\ InternalName(call.first.map_type) = InternalName(call.second.map_type)

C30_Witness ==
    /\ SharePath
    /\ call.first.map_type = "ARM" /\ call.second.map_type = "arm"

====
